---- MODULE Spec2Model ----
(***************************************************************************)
(* Model of manim/mobject/three_d/polyhedra.py: the Polyhedron mobject     *)
(* (construction, edge derivation, face polygons, the update_faces         *)
(* updater), the four platonic-solid tables and the face extraction of     *)
(* ConvexHull3D.                                                           *)
(*                                                                         *)
(* Python indices are kept 0-based as values; TLA+ sequences are 1-based,  *)
(* so element j of a Python list l is l[j + 1] here.                       *)
(* Coordinates are triples of integers.  The platonic tables keep the      *)
(* source's symbolic units (unit, unit_a, ...) as small integer codes.     *)
(***************************************************************************)
EXTENDS Integers, Sequences, FiniteSets, TLC

VARIABLES
    pc,             \* "new" | "constructed" | "failed"
    err,            \* exception that ended __init__: "none" | "KeyError" | "ValueError"
    attrs,          \* names of the attributes assigned on self so far
    vertex_coords,  \* self.vertex_coords
    faces_list,     \* self.faces_list
    face_coords,    \* self.face_coords
    edges,          \* self.edges
    faces,          \* self.faces: the VGroup of face polygons
    graph,          \* self.graph.vertices in insertion order: [v, center] records
    updaters,       \* self.updaters
    lastOp,         \* last operation run on the object
    prevOp,         \* the operation before it
    moves,          \* number of external vertex moves so far
    hull_facets,    \* hull.facets
    hull_removed,   \* hull.removed
    todo,           \* facets the outer loop has not visited yet
    cur,            \* the facet being visited, as a set: {} or {facet}
    subs_left,      \* subfacets of cur not yet visited
    pts_left,       \* points of the current subfacet not yet visited
    tmp,            \* tmp: the facet's accumulated point set
    seen,           \* points of cur in first-encounter order, until its face is emitted (history)
    vertices,       \* vertices
    d,              \* d: point -> index
    c,              \* c
    out_faces,      \* faces (the local list of ConvexHull3D.__init__)
    out_facet       \* facet each emitted face came from (history)

polyvars == <<pc, err, attrs, vertex_coords, faces_list, face_coords, edges,
              faces, graph, updaters, lastOp, prevOp, moves>>
hullvars == <<hull_facets, hull_removed, todo, cur, subs_left, pts_left, tmp,
              seen, vertices, d, c, out_faces, out_facet>>
vars == <<polyvars, hullvars>>

(***************************************************************************)
(* Bounds of the model.                                                    *)
(***************************************************************************)
MaxVerts == 2       \* length of a caller-supplied vertex table
MaxFaces == 1       \* length of a caller-supplied face list
MaxFaceLen == 3     \* length of one caller-supplied face
MaxMoves == 1       \* external vertex moves per behaviour
MaxCoord == 1       \* positions a vertex can be moved to
MaxFacets == 2      \* facets ever created by the hull engine

(***************************************************************************)
(* Helpers on sequences.                                                   *)
(***************************************************************************)
SeqsUpTo(S, n) == UNION {[1..k -> S] : k \in 0..n}

Range(s) == {s[k] : k \in 1..Len(s)}

Min(a, b) == IF a <= b THEN a ELSE b

\* zip(a, b): pairs up to the shorter argument
zip(a, b) == [k \in 1..Min(Len(a), Len(b)) |-> <<a[k], b[k]>>]

\* face[1:] + face[:1]
rotate(face) ==
    IF Len(face) = 0 THEN <<>>
    ELSE SubSeq(face, 2, Len(face)) \o SubSeq(face, 1, 1)

(***************************************************************************)
(* Polyhedron                                                              *)
(***************************************************************************)

\* dict(enumerate(vertex_coords)), negative keys accepted as a list would
layout_as_list(vc) ==
    [j \in (0 - Len(vc))..(Len(vc) - 1) |-> vc[(j % Len(vc)) + 1]]

\* self.layout = dict(enumerate(self.vertex_coords))
layout(vc) == [j \in 0..(Len(vc) - 1) |-> vc[j + 1]]

\* the lookup self.layout[j] raises KeyError for some index of some face
RaisesKeyError(lay, fl) ==
    \E i \in 1..Len(fl) : \E k \in 1..Len(fl[i]) : fl[i][k] \notin DOMAIN lay

\* [[layout[j] for j in i] for i in faces_list]
coords_of(lay, fl) ==
    [i \in 1..Len(fl) |-> [k \in 1..Len(fl[i]) |-> lay[fl[i][k]]]]

\* get_edges without the wrap-around pair
get_edges_open(fl) ==
    LET RECURSIVE acc(_, _)
        acc(i, es) ==
            IF i > Len(fl) THEN es
            ELSE acc(i + 1, es \o zip(fl[i], IF Len(fl[i]) = 0 THEN <<>> ELSE Tail(fl[i])))
    IN acc(1, <<>>)

\* Polyhedron.get_edges
get_edges(fl) ==
    LET RECURSIVE acc(_, _)
        acc(i, es) ==
            IF i > Len(fl) THEN es
            ELSE acc(i + 1, es \o zip(fl[i], rotate(fl[i])))
    IN acc(1, <<>>)

\* Polygon(*face) unpacks a first vertex: with no vertex it raises ValueError
PolygonRaises(face) == Len(face) = 0

\* Polygon(*face): the closed boundary path first, ..., last, first
Polygon(face) == face \o <<face[1]>>

\* Polyhedron.create_faces
create_faces(fc) == [i \in 1..Len(fc) |-> Polygon(fc[i])]

\* Graph(vertex_indices, edges, layout=layout): one vertex mobject per index,
\* in the order of vertex_indices, centred at its layout position
Graph(vertex_indices, lay) ==
    [k \in 1..Len(vertex_indices) |->
        [v |-> vertex_indices[k], center |-> lay[vertex_indices[k]]]]

\* list(range(len(vertex_coords)))
vertex_indices_of(vc) == [k \in 1..Len(vc) |-> k - 1]

AllAttrs == {"vertex_coords", "vertex_indices", "layout", "faces_list",
             "face_coords", "edges", "faces", "graph"}

\* Polyhedron.__init__(vertex_coords = vc, faces_list = fl)
PolyhedronInit(vc, fl) ==
    LET lay == layout(vc) IN
    /\ vertex_coords' = vc
    /\ faces_list' = fl
    /\ lastOp' = "init"
    /\ prevOp' = lastOp
    /\ moves' = moves
    /\ IF RaisesKeyError(lay, fl)
       THEN /\ pc' = "failed"
            /\ err' = "KeyError"
            /\ attrs' = {"vertex_coords", "vertex_indices", "layout", "faces_list"}
            /\ UNCHANGED <<face_coords, edges, faces, graph, updaters>>
       ELSE /\ face_coords' = coords_of(lay, fl)
            /\ edges' = get_edges(fl)
            /\ IF \E i \in 1..Len(fl) : PolygonRaises(coords_of(lay, fl)[i])
               THEN /\ pc' = "failed"
                    /\ err' = "ValueError"
                    /\ attrs' = {"vertex_coords", "vertex_indices", "layout",
                                 "faces_list", "face_coords", "edges"}
                    /\ UNCHANGED <<faces, graph, updaters>>
               ELSE /\ pc' = "constructed"
                    /\ err' = "none"
                    /\ attrs' = AllAttrs
                    /\ faces' = create_faces(coords_of(lay, fl))
                    /\ graph' = Graph(vertex_indices_of(vc), lay)
                    /\ updaters' = Append(updaters, "update_faces")

\* a caller-supplied vertex table of n distinct positions
VertexTable(n) == [k \in 1..n |-> <<k - 1, 0, 0>>]

\* caller-supplied face lists over a table of n vertices, indices in and out of range
FaceLists(n) == SeqsUpTo(SeqsUpTo((0 - 1)..n, MaxFaceLen), MaxFaces)

\* Polyhedron(vertex_coords, faces_list)
Construct ==
    /\ pc = "new"
    /\ \E n \in 0..MaxVerts : \E fl \in FaceLists(n) :
          PolyhedronInit(VertexTable(n), fl)
    /\ UNCHANGED hullvars

(***************************************************************************)
(* Platonic solids.  Coordinates are in the source's symbolic units:       *)
(* Tetrahedron and Octahedron: 1 stands for unit; Icosahedron: 1 for       *)
(* unit_b, 2 for unit_a; Dodecahedron: 1 for unit_c, 2 for unit_a, 3 for   *)
(* unit_b (codes ordered as the values are).                               *)
(***************************************************************************)
TetrahedronVertices ==
    << <<1, 1, 1>>, <<1, -1, -1>>, <<-1, 1, -1>>, <<-1, -1, 1>> >>

TetrahedronFaces == << <<0, 1, 2>>, <<3, 0, 2>>, <<0, 1, 3>>, <<3, 1, 2>> >>

OctahedronVertices ==
    << <<1, 0, 0>>, <<-1, 0, 0>>, <<0, 1, 0>>, <<0, -1, 0>>, <<0, 0, 1>>, <<0, 0, -1>> >>

OctahedronFaces ==
    << <<2, 4, 1>>, <<0, 4, 2>>, <<4, 3, 0>>, <<1, 3, 4>>,
       <<3, 5, 0>>, <<1, 5, 3>>, <<2, 5, 1>>, <<0, 5, 2>> >>

IcosahedronVertices ==
    << <<0, 1, 2>>, <<0, -1, 2>>, <<0, 1, -2>>, <<0, -1, -2>>,
       <<1, 2, 0>>, <<1, -2, 0>>, <<-1, 2, 0>>, <<-1, -2, 0>>,
       <<2, 0, 1>>, <<2, 0, -1>>, <<-2, 0, 1>>, <<-2, 0, -1>> >>

\* the face table with the face [10, 11, 6] mistyped as [10, 11, 5]
IcosahedronFacesTypo ==
    << <<1, 8, 0>>, <<1, 5, 7>>, <<8, 5, 1>>, <<7, 3, 5>>, <<5, 9, 3>>,
       <<8, 9, 5>>, <<3, 2, 9>>, <<9, 4, 2>>, <<8, 4, 9>>, <<0, 4, 8>>,
       <<6, 4, 0>>, <<6, 2, 4>>, <<11, 2, 6>>, <<3, 11, 2>>, <<0, 6, 10>>,
       <<10, 1, 0>>, <<10, 7, 1>>, <<11, 7, 3>>, <<10, 11, 7>>, <<10, 11, 5>> >>

IcosahedronFaces ==
    << <<1, 8, 0>>, <<1, 5, 7>>, <<8, 5, 1>>, <<7, 3, 5>>, <<5, 9, 3>>,
       <<8, 9, 5>>, <<3, 2, 9>>, <<9, 4, 2>>, <<8, 4, 9>>, <<0, 4, 8>>,
       <<6, 4, 0>>, <<6, 2, 4>>, <<11, 2, 6>>, <<3, 11, 2>>, <<0, 6, 10>>,
       <<10, 1, 0>>, <<10, 7, 1>>, <<11, 7, 3>>, <<10, 11, 7>>, <<10, 11, 6>> >>

DodecahedronVertices ==
    << <<2, 2, 2>>, <<2, 2, -2>>, <<2, -2, 2>>, <<2, -2, -2>>,
       <<-2, 2, 2>>, <<-2, 2, -2>>, <<-2, -2, 2>>, <<-2, -2, -2>>,
       <<0, 1, 3>>, <<0, 1, -3>>, <<0, -1, -3>>, <<0, -1, 3>>,
       <<1, 3, 0>>, <<-1, 3, 0>>, <<1, -3, 0>>, <<-1, -3, 0>>,
       <<3, 0, 1>>, <<-3, 0, 1>>, <<3, 0, -1>>, <<-3, 0, -1>> >>

DodecahedronFaces ==
    << <<18, 16, 0, 12, 1>>, <<3, 18, 16, 2, 14>>, <<3, 10, 9, 1, 18>>,
       <<1, 9, 5, 13, 12>>, <<0, 8, 4, 13, 12>>, <<2, 16, 0, 8, 11>>,
       <<4, 17, 6, 11, 8>>, <<17, 19, 5, 13, 4>>, <<19, 7, 15, 6, 17>>,
       <<6, 15, 14, 2, 11>>, <<19, 5, 9, 10, 7>>, <<7, 10, 3, 14, 15>> >>

\* Tetrahedron()
Tetrahedron ==
    /\ pc = "new"
    /\ PolyhedronInit(TetrahedronVertices, TetrahedronFaces)
    /\ UNCHANGED hullvars

\* Octahedron()
Octahedron ==
    /\ pc = "new"
    /\ PolyhedronInit(OctahedronVertices, OctahedronFaces)
    /\ UNCHANGED hullvars

\* Icosahedron()
Icosahedron ==
    /\ pc = "new"
    /\ PolyhedronInit(IcosahedronVertices, IcosahedronFaces)
    /\ UNCHANGED hullvars

\* Dodecahedron()
Dodecahedron ==
    /\ pc = "new"
    /\ PolyhedronInit(DodecahedronVertices, DodecahedronFaces)
    /\ UNCHANGED hullvars

(***************************************************************************)
(* The updater and the external mover.                                     *)
(***************************************************************************)

\* positions an external mover can put a vertex at
MoveTargets == {<<0, 0, z>> : z \in 1..MaxCoord}

\* extract_face_coords reading the construction-time table instead of the graph
extract_face_coords_stale == coords_of(layout(vertex_coords), faces_list)

\* Polyhedron.extract_face_coords
extract_face_coords ==
    LET new_vertex_coords == [k \in 1..Len(graph) |-> graph[k].center]
    IN coords_of(layout(new_vertex_coords), faces_list)

\* Mobject.match_points: the points of each submobject of self are replaced by
\* those of the submobject of the other group at the same place
match_points(self_faces, new_faces) ==
    [i \in 1..Len(self_faces) |->
        IF i <= Len(new_faces) THEN new_faces[i] ELSE self_faces[i]]

\* update_faces adding the new polygons to self.faces instead of matching points
update_faces_add == faces \o create_faces(extract_face_coords)

\* Polyhedron.update_faces: the value of self.faces after the call
update_faces == match_points(faces, create_faces(extract_face_coords))

\* the updater runs (once per frame, to completion)
UpdateFaces ==
    /\ pc = "constructed"
    /\ "update_faces" \in Range(updaters)
    /\ faces' = update_faces
    /\ lastOp' = "update_faces"
    /\ prevOp' = lastOp
    /\ UNCHANGED <<pc, err, attrs, vertex_coords, faces_list, face_coords, edges,
                   graph, updaters, moves>>
    /\ UNCHANGED hullvars

\* external code moves the mobject of vertex v: graph[v].move_to(p)
MoveVertex ==
    /\ pc = "constructed"
    /\ moves < MaxMoves
    /\ \E k \in 1..Len(graph) : \E p \in MoveTargets :
          graph' = [graph EXCEPT ![k].center = p]
    /\ moves' = moves + 1
    /\ lastOp' = "move"
    /\ prevOp' = lastOp
    /\ UNCHANGED <<pc, err, attrs, vertex_coords, faces_list, face_coords, edges,
                   faces, updaters>>
    /\ UNCHANGED hullvars

(***************************************************************************)
(* Specification of the Polyhedron life cycle.                             *)
(***************************************************************************)
NoFacets == {}

InitPoly ==
    /\ pc = "new"
    /\ err = "none"
    /\ attrs = {}
    /\ vertex_coords = <<>>
    /\ faces_list = <<>>
    /\ face_coords = <<>>
    /\ edges = <<>>
    /\ faces = <<>>
    /\ graph = <<>>
    /\ updaters = <<>>
    /\ lastOp = "none"
    /\ prevOp = "none"
    /\ moves = 0

InitHullIdle ==
    /\ hull_facets = NoFacets
    /\ hull_removed = NoFacets
    /\ todo = NoFacets
    /\ cur = NoFacets
    /\ subs_left = {}
    /\ pts_left = {}
    /\ tmp = {}
    /\ seen = <<>>
    /\ vertices = <<>>
    /\ d = [p \in {} |-> 0]
    /\ c = 0
    /\ out_faces = <<>>
    /\ out_facet = <<>>

Init == InitPoly /\ InitHullIdle

Next ==
    \/ Construct
    \/ Tetrahedron
    \/ Octahedron
    \/ Icosahedron
    \/ Dodecahedron
    \/ MoveVertex
    \/ UpdateFaces

Spec == Init /\ [][Next]_vars

(***************************************************************************)
(* ConvexHull3D: face extraction from the hull state left by QuickHull.    *)
(***************************************************************************)

\* the points of the hull engine, each an entity of its own
HullPoints == {"p1", "p2", "p3", "p4"}

\* point.coordinates: the corners of a planar convex quadrilateral, in
\* boundary order p1, p2, p3, p4
coordinates(p) ==
    CASE p = "p1" -> <<0, 0, 0>>
      [] p = "p2" -> <<1, 0, 0>>
      [] p = "p3" -> <<1, 1, 0>>
      [] p = "p4" -> <<0, 1, 0>>

\* a subfacet: an unordered pair of points.  The engine triangulated the
\* quadrilateral along p1 p3, so no subfacet joins p2 and p4.
Subfacets == {s \in SUBSET HullPoints : Cardinality(s) = 2} \ {{"p2", "p4"}}

\* the diagonal of the triangulation: a ridge of the triangular pieces only
Diagonal == {"p1", "p3"}

\* a facet: at least 3 subfacets forming a closed cycle (every point of the
\* facet lies on exactly two of its subfacets; with fewer than 6 points such a
\* set is a single cycle).  The facets are the two triangular pieces
\* p1 p2 p3 and p1 p3 p4 and the merged quadrilateral, whose boundary does not
\* hold the diagonal.
Facets ==
    {f \in SUBSET Subfacets :
        /\ Cardinality(f) >= 3
        /\ \A p \in UNION f : Cardinality({s \in f : p \in s}) = 2
        /\ Cardinality(f) > 3 => Diagonal \notin f}

\* set(hull.facets) with the removed facets left in
all_facets(hf, rem) == hf

\* facets = set(hull.facets) - hull.removed
live_facets(hf, rem) == hf \ rem

\* c += 1 left out
same_index(cc) == cc

\* c += 1
next_index(cc) == cc + 1

\* tmp.add(point) indented under "if point not in d"
tmp_add_if_new(t, p, dmap) == IF p \notin DOMAIN dmap THEN t \cup {p} ELSE t

\* tmp.add(point)
tmp_add(t, p, dmap) == t \cup {p}

\* [d[point] for point in tmp]: the indices of the points of the set tmp, in
\* the order the set iterates, which is any order
face_of(t, dmap) ==
    {face \in [1..Cardinality(t) -> {dmap[p] : p \in t}] :
        \A a, b \in 1..Cardinality(t) : a # b => face[a] # face[b]}

\* hull.build(array) has returned; vertices = [], faces = [], c = 0, d = {},
\* facets = set(hull.facets) - hull.removed
InitHull ==
    /\ InitPoly
    /\ hull_facets \in {F \in SUBSET Facets : Cardinality(F) \in 1..MaxFacets}
    /\ hull_removed \in SUBSET hull_facets
    /\ todo = live_facets(hull_facets, hull_removed)
    /\ cur = NoFacets
    /\ subs_left = {}
    /\ pts_left = {}
    /\ tmp = {}
    /\ seen = <<>>
    /\ vertices = <<>>
    /\ d = [p \in {} |-> 0]
    /\ c = 0
    /\ out_faces = <<>>
    /\ out_facet = <<>>

\* for facet in facets: tmp = set()
NextFacet ==
    /\ pc = "new"
    /\ cur = NoFacets
    /\ \E f \in todo :
          /\ cur' = {f}
          /\ todo' = todo \ {f}
          /\ subs_left' = f
    /\ pts_left' = {}
    /\ tmp' = {}
    /\ seen' = <<>>
    /\ UNCHANGED <<hull_facets, hull_removed, vertices, d, c, out_faces, out_facet>>
    /\ UNCHANGED polyvars

\* for subfacet in facet.subfacets: for point in subfacet.points: one run of
\* the loop body, on the next point of the current subfacet or, when that is
\* exhausted, on the first point of the next subfacet
VisitPoint ==
    /\ cur # NoFacets
    /\ \E s \in (IF pts_left = {} THEN subs_left ELSE {pts_left}) : \E p \in s :
          /\ subs_left' = subs_left \ {s}
          /\ pts_left' = s \ {p}
          /\ IF p \notin DOMAIN d
             THEN /\ vertices' = Append(vertices, coordinates(p))
                  /\ d' = [q \in DOMAIN d \cup {p} |-> IF q = p THEN c ELSE d[q]]
                  /\ c' = next_index(c)
             ELSE UNCHANGED <<vertices, d, c>>
          /\ tmp' = tmp_add(tmp, p, d)
          /\ seen' = IF p \in Range(seen) THEN seen ELSE Append(seen, p)
    /\ UNCHANGED <<hull_facets, hull_removed, todo, cur, out_faces, out_facet>>
    /\ UNCHANGED polyvars

\* faces.append([d[point] for point in tmp]); after the last facet the loop
\* ends and super().__init__(vertex_coords = vertices, faces_list = faces) runs
EmitFace ==
    /\ cur # NoFacets
    /\ pts_left = {}
    /\ subs_left = {}
    /\ \E face \in face_of(tmp, d) :
          /\ out_faces' = Append(out_faces, face)
          /\ IF todo = NoFacets
             THEN PolyhedronInit(vertices, Append(out_faces, face))
             ELSE UNCHANGED polyvars
    /\ out_facet' = out_facet \o [k \in 1..1 |-> CHOOSE f \in cur : TRUE]
    /\ seen' = <<>>
    /\ cur' = NoFacets
    /\ UNCHANGED <<hull_facets, hull_removed, todo, subs_left, pts_left, tmp,
                   vertices, d, c>>

\* no facet is live: the loop body never runs and
\* super().__init__(vertex_coords = vertices, faces_list = faces) runs
SuperInit ==
    /\ pc = "new"
    /\ hull_facets # NoFacets
    /\ live_facets(hull_facets, hull_removed) = NoFacets
    /\ PolyhedronInit(vertices, out_faces)
    /\ UNCHANGED hullvars

NextHull ==
    \/ NextFacet
    \/ VisitPoint
    \/ EmitFace
    \/ SuperInit

SpecHull == InitHull /\ [][NextHull]_vars

(***************************************************************************)
(* Properties of the Polyhedron life cycle.                                *)
(***************************************************************************)

\* __init__ was called with the arguments now in vertex_coords and faces_list
Attempted == pc \in {"constructed", "failed"}

\* some face references an index outside [0, len(vertex_coords))
FaceIndexOutOfRange ==
    \E i \in 1..Len(faces_list) : \E k \in 1..Len(faces_list[i]) :
        \/ faces_list[i][k] < 0
        \/ faces_list[i][k] >= Len(vertex_coords)

\* no face polygon, no graph and no updater exists
NoGeometry ==
    /\ "faces" \notin attrs
    /\ "graph" \notin attrs
    /\ faces = <<>>
    /\ graph = <<>>
    /\ updaters = <<>>

\* C1 as stated: a face index outside [0, n) makes construction fail with
\* InvalidFaceIndexError before any face polygon or graph is built and before
\* the updater is registered.
C1_InvalidFaceIndexError ==
    (Attempted /\ FaceIndexOutOfRange) =>
        (pc = "failed" /\ err = "InvalidFaceIndexError" /\ NoGeometry)

\* C1 amended: a face index outside [0, n) makes construction fail with the
\* KeyError of the layout lookup, before any face polygon or graph is built
\* and before the updater is registered.
C1_KeyErrorBeforeGeometry ==
    (Attempted /\ FaceIndexOutOfRange) =>
        (pc = "failed" /\ err = "KeyError" /\ NoGeometry)

C1_Witness ==
    /\ pc = "failed"
    /\ Len(vertex_coords) > 0
    /\ \E i \in 1..Len(faces_list) : \E k \in 1..Len(faces_list[i]) :
          faces_list[i][k] < 0

\* C2 as stated: a face with fewer than 3 indices makes construction fail with
\* DegenerateFaceError before any display geometry is built, so every face of
\* a constructed Polyhedron has at least 3 indices.
C2_DegenerateFaceRejected ==
    /\ (Attempted /\ \E i \in 1..Len(faces_list) : Len(faces_list[i]) < 3) =>
           (pc = "failed" /\ err = "DegenerateFaceError" /\ NoGeometry)
    /\ pc = "constructed" => \A i \in 1..Len(faces_list) : Len(faces_list[i]) >= 3

\* the distinct unordered vertex pairs among the pairs of self.edges
UndirectedEdges == {{edges[k][1], edges[k][2]} : k \in 1..Len(edges)}

Counts == <<Len(vertex_coords), Len(faces_list), Cardinality(UndirectedEdges)>>

\* C3: the (vertices, faces, distinct edges) counts of Tetrahedron, Octahedron,
\* Icosahedron and Dodecahedron are (4,4,6), (6,8,12), (12,20,30), (20,12,30).
C3_KnownSolids ==
    pc = "constructed" =>
        /\ vertex_coords = TetrahedronVertices => Counts = <<4, 4, 6>>
        /\ vertex_coords = OctahedronVertices => Counts = <<6, 8, 12>>
        /\ vertex_coords = IcosahedronVertices => Counts = <<12, 20, 30>>
        /\ vertex_coords = DodecahedronVertices => Counts = <<20, 12, 30>>

C3_Witness ==
    /\ pc = "constructed"
    /\ vertex_coords = IcosahedronVertices
    /\ Cardinality(UndirectedEdges) = 30

\* current position of the graph vertex whose index is j
CenterOf(j) == (CHOOSE r \in Range(graph) : r.v = j).center

\* C4: right after update_faces has run, point k of face polygon i is the
\* current position of graph vertex faces_list[i][k], for every face in
\* face-list order.
C4_FacesFollowVertices ==
    lastOp = "update_faces" =>
        /\ Len(faces) = Len(faces_list)
        /\ \A i \in 1..Len(faces_list) : \A k \in 1..Len(faces_list[i]) :
              faces[i][k] = CenterOf(faces_list[i][k])

C4_Witness ==
    /\ lastOp = "update_faces"
    /\ prevOp = "move"
    /\ \E i \in 1..Len(faces) : \E k \in 1..Len(faces[i]) : faces[i][k] \in MoveTargets

\* C5: a run of update_faces directly after another run of update_faces, with
\* no vertex move in between, leaves the face polygons as the first run left
\* them.
C5_IdempotentSync ==
    [][(lastOp = "update_faces" /\ lastOp' = "update_faces") => faces' = faces]_vars

C5_Witness ==
    /\ lastOp = "update_faces"
    /\ prevOp = "update_faces"
    /\ moves > 0
    /\ \E i \in 1..Len(faces) : \E k \in 1..Len(faces[i]) : faces[i][k] \in MoveTargets

\* number of pairs contributed by the faces before face i
Offset(i) ==
    LET RECURSIVE sum(_)
        sum(j) == IF j = 0 THEN 0 ELSE Len(faces_list[j]) + sum(j - 1)
    IN sum(i - 1)

\* C6: self.edges is the concatenation, in face-list order, of the cyclic
\* adjacent pairs of every face, one pair per face position, not deduplicated.
C6_EdgesAreCyclicPairs ==
    "edges" \in attrs =>
        /\ Len(edges) = Offset(Len(faces_list) + 1)
        /\ \A i \in 1..Len(faces_list) : \A k \in 1..Len(faces_list[i]) :
              edges[Offset(i) + k] =
                  <<faces_list[i][k], faces_list[i][(k % Len(faces_list[i])) + 1]>>

C6_Witness ==
    /\ pc = "constructed"
    /\ \E a, b \in 1..Len(edges) :
          /\ a # b
          /\ edges[a] = <<edges[b][2], edges[b][1]>>
          /\ edges[a][1] # edges[a][2]
    /\ \E a, b \in 1..Len(edges) : a # b /\ edges[a] = edges[b]

(***************************************************************************)
(* Properties of the ConvexHull3D face extraction.                         *)
(***************************************************************************)

\* the point that was given index j
PointAt(j) == CHOOSE p \in DOMAIN d : d[p] = j

\* the points touched by the subfacets of facet f
PointsOf(f) == UNION f

\* the live facets of the hull state
Live == hull_facets \ hull_removed

\* the outer loop has visited every facet
ExtractionDone == hull_facets # NoFacets /\ cur = NoFacets /\ todo = NoFacets

\* C7 as stated: in every emitted face, every cyclically consecutive pair of
\* indices is the pair of points of one subfacet of the face's facet.
C7_FaceIsCyclicTraversal ==
    \A i \in 1..Len(out_faces) : \A k \in 1..Len(out_faces[i]) :
        {PointAt(out_faces[i][k]),
         PointAt(out_faces[i][(k % Len(out_faces[i])) + 1])} \in out_facet[i]

\* the step that appends a face
EmitStep == Len(out_faces') = Len(out_faces) + 1

\* C8 as stated: the face appended for a facet lists the indices of the
\* facet's points in the order in which the traversal first met them.
C8_FaceInInsertionOrder ==
    [][EmitStep =>
          out_faces'[Len(out_faces')] = [k \in 1..Len(seen) |-> d[seen[k]]]]_vars

\* C8 amended: the face appended for a facet lists the index of each point the
\* traversal met exactly once, in some order (the iteration order of the set
\* tmp), which need not be the order of first encounter.
C8_FaceIsPermutationOfSeen ==
    [][EmitStep =>
          LET face == out_faces'[Len(out_faces')] IN
          /\ Len(face) = Len(seen)
          /\ \A k \in 1..Len(seen) :
                Cardinality({m \in 1..Len(face) : face[m] = d[seen[k]]}) = 1]_vars

\* the first facet's points are met in index order 0, 1, 2, 3; its face is
\* emitted in another order
C8_Witness ==
    /\ Len(out_faces) = 2
    /\ Len(out_faces[1]) = 4
    /\ out_faces[1] # <<0, 1, 2, 3>>
    /\ Len(out_faces[2]) = 3

\* C9: when extraction is done there is exactly one face per live facet and
\* none for a removed facet, the indices of a face are those of the points of
\* its facet, none repeated, and every point of the vertex table lies on a
\* live facet.
C9_OneFacePerLiveFacet ==
    ExtractionDone =>
        /\ Len(out_faces) = Cardinality(Live)
        /\ \A f \in Live : Cardinality({i \in 1..Len(out_facet) : out_facet[i] = f}) = 1
        /\ \A i \in 1..Len(out_facet) : out_facet[i] \notin hull_removed
        /\ \A i \in 1..Len(out_faces) :
              /\ Range(out_faces[i]) = {d[p] : p \in PointsOf(out_facet[i])}
              /\ Len(out_faces[i]) = Cardinality(PointsOf(out_facet[i]))
        /\ \A p \in DOMAIN d : \E f \in Live : p \in PointsOf(f)
        /\ Len(vertices) = Cardinality(UNION {PointsOf(f) : f \in Live})

C9_Witness ==
    /\ ExtractionDone
    /\ Cardinality(Live) = 1
    /\ \E f \in Live : Cardinality(PointsOf(f)) = 3
    /\ \E f \in hull_removed : \E p \in PointsOf(f) : p \notin DOMAIN d
    /\ Len(out_faces) = 1

\* the vertex table is deduplicated by point and consistently indexed
VertexTableConsistent ==
    /\ c = Len(vertices)
    /\ \A p, q \in DOMAIN d : p # q => d[p] # d[q]
    /\ {d[p] : p \in DOMAIN d} = 0..(Len(vertices) - 1)
    /\ \A p \in DOMAIN d : vertices[d[p] + 1] = coordinates(p)
    /\ \A i \in 1..Len(out_faces) : \A k \in 1..Len(out_faces[i]) :
          out_faces[i][k] \in 0..(Len(vertices) - 1)
    /\ pc = "constructed" => vertex_coords = vertices /\ faces_list = out_faces

\* C10: at every step of the extraction and at its end the point-to-index map
\* is a bijection onto 0..len(vertices)-1, c = len(vertices), vertices[d[p]]
\* is the coordinate of p, every index of an emitted face is < len(vertices),
\* and an index once assigned to a point never changes.
C10_VertexTable ==
    /\ []VertexTableConsistent
    /\ [][\A p \in DOMAIN d : p \in DOMAIN d' /\ d'[p] = d[p]]_vars

C10_Witness ==
    /\ pc = "constructed"
    /\ Len(vertices) = 4
    /\ Len(out_faces) = 2
    /\ Range(out_faces[1]) \cap Range(out_faces[2]) # {}

====
